---------------------------- MODULE Spec2Model ----------------------------
(***************************************************************************)
(* Model of src/src/services/video.services.ts (etna-myapi): the path      *)
(* functions, the rename (updateVideoName), the delete (deleteVideo) and   *)
(* the encode job (encodeVideo) of a video asset.                          *)
(*                                                                         *)
(* A JavaScript string is a sequence of one-character strings, so that     *)
(* split, join, pop and slice are computed as the code computes them.      *)
(***************************************************************************)
EXTENDS Integers, Sequences, FiniteSets

(***************************************************************************)
(* Bounds of the model.                                                    *)
(***************************************************************************)
\* First value Date.now() returns in a run; 9 makes the decimal text grow
\* from one digit to two while the clock advances.
ClockStart == 9
\* How many milliseconds the clock may advance during a run.
MaxTicks == 2
\* Longest path-like input (oldPath, uploaded file name) of the path functions.
MaxPathLen == 4
\* Longest name-like input (declared name, new name) of the path functions.
MaxNameLen == 2
\* Most progress events an encode job's engine emits before it ends.
MaxProgress == 2

\* Largest page number asked of a listing.
MaxPage == 5
\* Largest page size asked of a listing (more than the default page size).
MaxPerPage == 6

MaxClock == ClockStart + MaxTicks

(***************************************************************************)
(* JavaScript strings and arrays.                                          *)
(***************************************************************************)
Alphabet == {"/", ".", "_", "a"}

DigitChar == <<"0", "1", "2", "3", "4", "5", "6", "7", "8", "9">>

\* String(n) of a non-negative integer: its decimal digits.
RECURSIVE NumberToString(_)
NumberToString(n) ==
    IF n < 10 THEN <<DigitChar[n + 1]>>
    ELSE NumberToString(n \div 10) \o <<DigitChar[(n % 10) + 1]>>

\* s.split(c) for a one-character separator c.
RECURSIVE Split(_, _)
Split(s, c) ==
    IF \A i \in 1..Len(s) : s[i] # c THEN <<s>>
    ELSE LET i == CHOOSE k \in 1..Len(s) :
                     s[k] = c /\ \A j \in 1..(k - 1) : s[j] # c
         IN <<SubSeq(s, 1, i - 1)>> \o Split(SubSeq(s, i + 1, Len(s)), c)

\* parts.join(sep)
RECURSIVE Join(_, _)
Join(parts, sep) ==
    IF Len(parts) = 0 THEN <<>>
    ELSE IF Len(parts) = 1 THEN parts[1]
    ELSE parts[1] \o sep \o Join(Tail(parts), sep)

\* split(c) never returns an empty array, so pop() is its last element.
Pop(parts) == parts[Len(parts)]

\* parts.slice(0, -1)
SliceButLast(parts) == SubSeq(parts, 1, Len(parts) - 1)

\* parts.slice(1)
SliceFromSecond(parts) == SubSeq(parts, 2, Len(parts))

\* parts.slice(-1), then concatenated to a string: a one-element array
\* converts to its element.
SliceLastToString(parts) == Join(SubSeq(parts, Len(parts), Len(parts)), <<",">>)

(***************************************************************************)
(* The path functions (Date.now() is the parameter now).                   *)
(***************************************************************************)
\* A plausible slip: the extension taken from the declared name.
generateVideoPathDeclaredExt(videoFolder, name, fileName, now) ==
    videoFolder \o <<"/">> \o NumberToString(now) \o <<"_">> \o name \o <<".">>
        \o Pop(Split(name, "."))

\* A plausible slip: no extension when the file name has no ".".
generateVideoPathEmptyExt(videoFolder, name, fileName, now) ==
    videoFolder \o <<"/">> \o NumberToString(now) \o <<"_">> \o name \o <<".">>
        \o (IF Len(Split(fileName, ".")) = 1 THEN <<>> ELSE Pop(Split(fileName, ".")))

generateVideoPath(videoFolder, name, fileName, now) ==
    videoFolder \o <<"/">> \o NumberToString(now) \o <<"_">> \o name \o <<".">>
        \o Pop(Split(fileName, "."))

getVideoName(source) ==
    Join(SliceFromSecond(Split(Pop(Split(source, "/")), "_")), <<"_">>)

generateEncodedVideoFolderPath(source, id, resolution) ==
    Join(SliceButLast(Split(source, "/")), <<"/">>)
        \o <<"/">> \o NumberToString(id) \o <<"/">> \o NumberToString(resolution) \o <<"p", "/">>

generateEncodedVideoPath(folder, fileName, now) ==
    folder \o NumberToString(now) \o <<"_">> \o fileName

updateVideoPath(oldPath, newName, now) ==
    Join(SliceButLast(Split(oldPath, "/")), <<"/">>)
        \o <<"/">> \o NumberToString(now) \o <<"_">>
        \o SliceLastToString(Split(newName, "."))
        \o <<".">> \o Pop(Split(oldPath, "."))

(***************************************************************************)
(* What the claims call a path's directory, file name and extension,       *)
(* found by position and not by split.                                     *)
(***************************************************************************)
\* The last position of character c in s, 0 when s does not contain it.
LastIndexOf(s, c) ==
    IF \A i \in 1..Len(s) : s[i] # c THEN 0
    ELSE CHOOSE k \in 1..Len(s) : s[k] = c /\ \A j \in (k + 1)..Len(s) : s[j] # c

Contains(s, c) == \E i \in 1..Len(s) : s[i] = c

\* The directory of a path with its trailing "/" (empty for a bare file name).
DirPrefix(p) == SubSeq(p, 1, LastIndexOf(p, "/"))

\* The last path segment: the file name.
BaseName(p) == SubSeq(p, LastIndexOf(p, "/") + 1, Len(p))

\* The extension of a file name: what follows its last ".", empty when the
\* file name has no ".".
ExtName(p) ==
    LET b == BaseName(p)
    IN  IF Contains(b, ".") THEN SubSeq(b, LastIndexOf(b, ".") + 1, Len(b)) ELSE <<>>

EndsWith(s, suffix) ==
    /\ Len(suffix) <= Len(s)
    /\ SubSeq(s, Len(s) - Len(suffix) + 1, Len(s)) = suffix

StartsWith(s, prefix) ==
    /\ Len(prefix) <= Len(s)
    /\ SubSeq(s, 1, Len(prefix)) = prefix

(***************************************************************************)
(* State.                                                                  *)
(***************************************************************************)
VARIABLES
    \* A call of one path function on drawn inputs:
    pFn,        \* the function called
    pArgs,      \* its string arguments [folder, name, path]
    pNow,       \* what Date.now() returned in the call
    pOut,       \* the string returned
    pDone,      \* whether the call has returned
    pThen,      \* the call made next on the string returned, if any
    \* The life of one video:
    clock,      \* the last value Date.now() returned
    files,      \* the paths of the files on disk
    dirs,       \* the paths of the directories on disk
    record,     \* the persisted Video row
    video,      \* the Video object the running operation was given
    pc,         \* where the running operation stands
    rn,         \* updateVideoName's locals and what the call has done so far
    del,        \* deleteVideo's three asynchronous steps
    storeFailed,\* whether the record store has rejected a save or a destroy
    \* Concurrent encodeVideo jobs:
    jobs,       \* per job: its resolution, output path, engine and promise
    \* A call of one of the two listing functions:
    query       \* its arguments and the options it gives the record store

pathVars == <<pFn, pArgs, pNow, pOut, pDone, pThen>>

lifeVars == <<clock, files, dirs, record, video, pc, rn, del, storeFailed>>

vars ==
    <<pFn, pArgs, pNow, pOut, pDone, pThen, clock, files, dirs, record, video, pc, rn,
      del, storeFailed, jobs, query>>

(***************************************************************************)
(* Values of the state, and the state of a part that is not running.       *)
(***************************************************************************)
\* The resolutions encodeVideo accepts.
Resolutions == {1080, 720, 480, 360, 240, 144}

\* A falsy path: what `if (oldPath)` skips.
Null == <<>>

EmptyFormat == [r \in {} |-> Null]

NoVideo == [exists |-> FALSE, id |-> 0, source |-> Null, format |-> EmptyFormat]

RnIdle ==
    [newName |-> Null, oldPath |-> Null, newPath |-> Null,
     keys |-> <<>>, key |-> 0, fOld |-> Null, fNew |-> Null,
     moved |-> <<>>, attempts |-> 0, failed |-> FALSE, saves |-> 0,
     outcome |-> "none", before |-> NoVideo, filesBefore |-> {}]

DelIdle ==
    [rm |-> "none", rmdir |-> "none", destroy |-> "none", threw |-> FALSE,
     sourceMissing |-> FALSE]

LifeIdle ==
    /\ clock = ClockStart
    /\ files = {}
    /\ dirs = {}
    /\ record = NoVideo
    /\ video = NoVideo
    /\ pc = "new"
    /\ rn = RnIdle
    /\ del = DelIdle
    /\ storeFailed = FALSE

EncodeIdle == jobs = <<>>

\* No call follows on the string returned.
ThenNone == [fn |-> "none", now |-> 0, out |-> <<>>, encoded |-> <<>>]

QueryNone ==
    [fn |-> "none", name |-> FALSE, user |-> FALSE, duration |-> FALSE,
     page |-> 0, perPage |-> 0, where |-> {}, limit |-> 0, offset |-> 0, done |-> FALSE]

QueryIdle == query = QueryNone

(***************************************************************************)
(* Calls of the path functions on every short string.                      *)
(***************************************************************************)
StringsUpTo(n) == UNION {[1..k -> Alphabet] : k \in 0..n}

\* oldPath of updateVideoPath, file.name of generateVideoPath
PathInputs == StringsUpTo(MaxPathLen)
\* newName of updateVideoPath, req.body.name of generateVideoPath
NameInputs == StringsUpTo(MaxNameLen)
\* videoFolder of generateVideoPath
FolderInputs == {<<"/", "a">>, <<"/", "a", ".", "a">>}

ClockValues == ClockStart..MaxClock

PathIdle ==
    /\ pFn = "none"
    /\ pArgs = [folder |-> <<>>, name |-> <<>>, path |-> <<>>]
    /\ pNow = 0
    /\ pOut = <<>>
    /\ pDone = FALSE
    /\ pThen = ThenNone

PathInit ==
    /\ LifeIdle
    /\ EncodeIdle
    /\ QueryIdle
    /\ pThen = ThenNone
    /\ pNow = 0
    /\ pOut = <<>>
    /\ pDone = FALSE
    /\ \/ /\ pFn = "updateVideoPath"
          /\ pArgs \in [folder : {<<>>}, name : NameInputs, path : PathInputs]
       \/ /\ pFn = "generateVideoPath"
          /\ pArgs \in [folder : FolderInputs, name : NameInputs, path : PathInputs]

CallUpdateVideoPath ==
    /\ pFn = "updateVideoPath"
    /\ ~pDone
    /\ \E now \in ClockValues :
          /\ pNow' = now
          /\ pOut' = updateVideoPath(pArgs.path, pArgs.name, now)
    /\ pDone' = TRUE
    /\ UNCHANGED <<pFn, pArgs, pThen, lifeVars, jobs, query>>

CallGenerateVideoPath ==
    /\ pFn = "generateVideoPath"
    /\ ~pDone
    /\ \E now \in ClockValues :
          /\ pNow' = now
          /\ pOut' = generateVideoPath(pArgs.folder, pArgs.name, pArgs.path, now)
    /\ pDone' = TRUE
    /\ UNCHANGED <<pFn, pArgs, pThen, lifeVars, jobs, query>>

\* The video the returned path is the source of, where a call needs one.
PathVideo == [id |-> 7, resolution |-> 720]

\* updateVideoPath applied, with the same new name, to the path it returned.
CallUpdateVideoPathAgain ==
    /\ pFn = "updateVideoPath"
    /\ pDone
    /\ pThen.fn = "none"
    /\ \E now \in pNow..MaxClock :
          pThen' = [fn |-> "updateVideoPath", now |-> now,
                    out |-> updateVideoPath(pOut, pArgs.name, now),
                    encoded |-> <<>>]
    /\ UNCHANGED <<pFn, pArgs, pNow, pOut, pDone, lifeVars, jobs, query>>

\* getVideoName of a video whose source is the path returned, and the path
\* generateEncodedVideoPath builds from it in the video's derived folder.
CallGetVideoName ==
    /\ pDone
    /\ pThen.fn = "none"
    /\ \E now \in pNow..MaxClock :
          LET fileName == getVideoName(pOut)
              folder == generateEncodedVideoFolderPath(pOut, PathVideo.id,
                                                       PathVideo.resolution)
          IN  pThen' = [fn |-> "getVideoName", now |-> now, out |-> fileName,
                        encoded |-> generateEncodedVideoPath(folder, fileName, now)]
    /\ UNCHANGED <<pFn, pArgs, pNow, pOut, pDone, lifeVars, jobs, query>>

PathNext ==
    \/ CallUpdateVideoPath
    \/ CallGenerateVideoPath
    \/ CallUpdateVideoPathAgain
    \/ CallGetVideoName

SpecPath == PathInit /\ [][PathNext]_vars

(***************************************************************************)
(* Claims about the path functions, checked under SpecPath.                *)
(***************************************************************************)
UpdateVideoPathReturned == pFn = "updateVideoPath" /\ pDone

GenerateVideoPathReturned == pFn = "generateVideoPath" /\ pDone

\* What follows the last "." of s; all of s when it has no ".".
AfterLastDot(s) == SubSeq(s, LastIndexOf(s, ".") + 1, Len(s))

\* The extension of an uploaded file's name: empty when it has no ".".
FileExtension(fileName) ==
    IF Contains(fileName, ".") THEN AfterLastDot(fileName) ELSE <<>>

\* A path with a directory and a file name of the form <stem>.<extension>.
HasDirStemAndExtension(p) ==
    /\ Contains(p, "/")
    /\ Contains(BaseName(p), ".")
    /\ BaseName(p)[1] # "."
    /\ ExtName(p) # <<>>

\* A name that is one path segment and not empty.
IsFileName(n) == n # <<>> /\ ~Contains(n, "/")

\* C8: updateVideoPath(oldPath, newName) keeps oldPath's directory and oldPath's
\* extension, and its file name is a fresh timestamp, "_" and the last path
\* segment of the new name (stated here for the paths that have a directory
\* and an extension and the new names of one segment).
C8_RenamedPathKeepsDirAndExtension ==
    (/\ UpdateVideoPathReturned
     /\ HasDirStemAndExtension(pArgs.path)
     /\ IsFileName(pArgs.name))
    => pOut = DirPrefix(pArgs.path) \o NumberToString(pNow) \o <<"_">>
                 \o BaseName(pArgs.name) \o <<".">> \o ExtName(pArgs.path)

AfterFirst(s, c) ==
    IF Contains(s, c)
    THEN SubSeq(s, (CHOOSE k \in 1..Len(s) : s[k] = c /\ \A j \in 1..(k - 1) : s[j] # c) + 1,
                Len(s))
    ELSE s

\* A path with the timestamp of its file name left out: its directory and
\* what follows the first "_" of its file name (base name and extension).
WithoutTimestamp(p) == [dir |-> DirPrefix(p), name |-> AfterFirst(BaseName(p), "_")]

\* C12: updateVideoPath applied again with the same new name gives the path of
\* the first application once the timestamp is ignored: same directory, same
\* base name, same extension (stated here for the old paths that have a
\* directory and an extension and the new names that are not empty).
C12_RenameTwiceIsRenameOnce ==
    (/\ pFn = "updateVideoPath"
     /\ pThen.fn = "updateVideoPath"
     /\ HasDirStemAndExtension(pArgs.path)
     /\ pArgs.name # <<>>)
    => WithoutTimestamp(pThen.out) = WithoutTimestamp(pOut)

\* C17: getVideoName of a source built by generateVideoPath from a declared
\* name without "/" is <declaredName>.<ext>, and generateEncodedVideoPath builds
\* <folder><timestamp>_<declaredName>.<ext> from it; the same for a source
\* built by updateVideoPath from a new name without "/".
C17_NameSurvivesTheRoundTrip ==
    /\ (/\ pFn = "generateVideoPath"
        /\ pThen.fn = "getVideoName"
        /\ IsFileName(pArgs.name)
        /\ IsFileName(pArgs.path))
       => /\ pThen.out = pArgs.name \o <<".">> \o AfterLastDot(pArgs.path)
          /\ pThen.encoded
                = generateEncodedVideoFolderPath(pOut, PathVideo.id, PathVideo.resolution)
                     \o NumberToString(pThen.now) \o <<"_">> \o pArgs.name \o <<".">>
                     \o AfterLastDot(pArgs.path)
    /\ (/\ pFn = "updateVideoPath"
        /\ pThen.fn = "getVideoName"
        /\ HasDirStemAndExtension(pArgs.path)
        /\ IsFileName(pArgs.name))
       => pThen.out = pArgs.name \o <<".">> \o ExtName(pArgs.path)

(***************************************************************************)
(* The life of one video: upload, encodes, renames, delete.                *)
(***************************************************************************)
\* The folder uploads are written to, the declared names and the uploaded
\* file names of the upload request, the new names of the rename requests.
UploadFolder == <<"/", "d">>
DeclaredNames == {<<"a">>}
UploadedFileNames == {<<"c", ".", "m">>}
NewNames == {<<"h">>, <<"h", ".", "x">>, <<"h", "/", "x">>}
VideoIds == {7}

\* The resolutions the video is encoded at in the runs checked.
LifecycleResolutions == {720, 480}

\* format of a new row: no key at all, or every key without a path yet.
DefaultFormats == {EmptyFormat, [r \in LifecycleResolutions |-> Null]}

\* One read of Date.now(): the clock never goes back.
ClockReads == clock..MaxClock

\* Object.keys of an object with integer keys: ascending.
RECURSIVE SortedKeys(_)
SortedKeys(keySet) ==
    IF keySet = {} THEN <<>>
    ELSE LET m == CHOOSE k \in keySet : \A j \in keySet : k <= j
         IN <<m>> \o SortedKeys(keySet \ {m})

Put(format, r, path) ==
    [k \in DOMAIN format \cup {r} |-> IF k = r THEN path ELSE format[k]]

HasPath(format, r) == IF r \in DOMAIN format THEN format[r] # Null ELSE FALSE

ParentDir(p) == SubSeq(p, 1, LastIndexOf(p, "/") - 1)

\* fs.rename(from, to) can succeed when the file is there and so is the
\* directory it moves to; it can fail in any state (EACCES, EIO, ...).
RenameCanSucceed(from, to) == from \in files /\ ParentDir(to) \in dirs

FilesAfterRename(from, to) == (files \ {from}) \cup {to}

\* The upload handler: writes the uploaded file to generateVideoPath's path and
\* inserts the row (createVideo).
CreateVideo ==
    /\ pc = "new"
    /\ \E name \in DeclaredNames, fileName \in UploadedFileNames, id \in VideoIds,
          now \in ClockReads, fmt \in DefaultFormats :
          LET source == generateVideoPath(UploadFolder, name, fileName, now)
          IN  /\ clock' = now
              /\ files' = {source}
              /\ dirs' = {UploadFolder}
              /\ record' = [exists |-> TRUE, id |-> id, source |-> source,
                            format |-> fmt]
    /\ pc' = "idle"
    /\ UNCHANGED <<video, rn, del, storeFailed, pathVars, jobs, query>>

\* The encode handler, when the job succeeds: creates the derived folder
\* (createVideoFolder), writes the derived file and records its path (updateVideo).
EncodeDerived ==
    /\ pc = "idle"
    /\ record.exists
    /\ record.source \in files
    /\ \E r \in LifecycleResolutions, now \in ClockReads :
          LET folder == generateEncodedVideoFolderPath(record.source, record.id, r)
              out == generateEncodedVideoPath(folder, getVideoName(record.source), now)
              resDir == SubSeq(folder, 1, Len(folder) - 1)
          IN  /\ ~HasPath(record.format, r)
              /\ clock' = now
              /\ dirs' = dirs \cup {resDir, ParentDir(resDir)}
              /\ files' = files \cup {out}
              /\ record' = [record EXCEPT !.format = Put(@, r, out)]
    /\ rn' = RnIdle
    /\ UNCHANGED <<video, pc, del, storeFailed, pathVars, jobs, query>>

\* updateVideoName, lines 312-315, on the row just read (getVideoById): the two
\* calls of updateVideoPath read the clock one after the other.
RenameBegin ==
    /\ pc = "idle"
    /\ record.exists
    /\ \E newName \in NewNames, t1 \in ClockReads :
          \E t2 \in t1..MaxClock :
             /\ rn' = [RnIdle EXCEPT !.newName = newName,
                                     !.oldPath = record.source,
                                     !.newPath = updateVideoPath(record.source, newName, t1),
                                     !.before = record,
                                     !.filesBefore = files]
             /\ video' = [record EXCEPT !.source = updateVideoPath(record.source, newName, t2)]
             /\ clock' = t2
    /\ pc' = "primaryMove"
    /\ UNCHANGED <<files, dirs, record, del, storeFailed, pathVars, jobs, query>>

\* line 316: await fsAsync.rename(oldPath, newPath)
RenamePrimaryMove ==
    /\ pc = "primaryMove"
    /\ \/ /\ RenameCanSucceed(rn.oldPath, rn.newPath)
          /\ files' = FilesAfterRename(rn.oldPath, rn.newPath)
          /\ rn' = [rn EXCEPT !.attempts = @ + 1,
                              !.moved = Append(@, <<rn.oldPath, rn.newPath>>),
                              !.keys = SortedKeys(DOMAIN video.format)]
          /\ pc' = "loop"
       \/ /\ files' = files
          /\ rn' = [rn EXCEPT !.attempts = @ + 1, !.failed = TRUE, !.outcome = "threw"]
          /\ pc' = "idle"
    /\ UNCHANGED <<clock, dirs, record, video, del, storeFailed, pathVars, jobs, query>>

\* A plausible slip: the new derived path computed from the primary file's old
\* path, not from the derived file's current path.
RenameLoopStepFromPrimary ==
    /\ pc = "loop"
    /\ rn.keys # <<>>
    /\ LET k == Head(rn.keys)
           old == video.format[k]
       IN  IF old = Null
           THEN /\ rn' = [rn EXCEPT !.keys = Tail(@)]
                /\ UNCHANGED <<clock, video, pc>>
           ELSE \E now \in ClockReads :
                   LET new == updateVideoPath(rn.oldPath, rn.newName, now)
                   IN  /\ video' = [video EXCEPT !.format[k] = new]
                       /\ rn' = [rn EXCEPT !.keys = Tail(@), !.key = k,
                                           !.fOld = old, !.fNew = new]
                       /\ clock' = now
                       /\ pc' = "derivedMove"
    /\ UNCHANGED <<files, dirs, record, del, storeFailed, pathVars, jobs, query>>

\* lines 318-323: the next key of the loop, up to the assignment of its new path.
RenameLoopStep ==
    /\ pc = "loop"
    /\ rn.keys # <<>>
    /\ LET k == Head(rn.keys)
           old == video.format[k]
       IN  IF old = Null
           THEN /\ rn' = [rn EXCEPT !.keys = Tail(@)]
                /\ UNCHANGED <<clock, video, pc>>
           ELSE \E now \in ClockReads :
                   LET new == updateVideoPath(old, rn.newName, now)
                   IN  /\ video' = [video EXCEPT !.format[k] = new]
                       /\ rn' = [rn EXCEPT !.keys = Tail(@), !.key = k,
                                           !.fOld = old, !.fNew = new]
                       /\ clock' = now
                       /\ pc' = "derivedMove"
    /\ UNCHANGED <<files, dirs, record, del, storeFailed, pathVars, jobs, query>>

\* A plausible slip: a failed derived move is caught and the loop goes on.
RenameDerivedMoveSwallow ==
    /\ pc = "derivedMove"
    /\ \/ /\ RenameCanSucceed(rn.fOld, rn.fNew)
          /\ files' = FilesAfterRename(rn.fOld, rn.fNew)
          /\ rn' = [rn EXCEPT !.attempts = @ + 1,
                              !.moved = Append(@, <<rn.fOld, rn.fNew>>)]
       \/ /\ files' = files
          /\ rn' = [rn EXCEPT !.attempts = @ + 1, !.failed = TRUE]
    /\ pc' = "loop"
    /\ UNCHANGED <<clock, dirs, record, video, del, storeFailed, pathVars, jobs, query>>

\* A plausible slip: a failed derived move puts the primary file back.
RenameDerivedMoveRollback ==
    /\ pc = "derivedMove"
    /\ \/ /\ RenameCanSucceed(rn.fOld, rn.fNew)
          /\ files' = FilesAfterRename(rn.fOld, rn.fNew)
          /\ rn' = [rn EXCEPT !.attempts = @ + 1,
                              !.moved = Append(@, <<rn.fOld, rn.fNew>>)]
          /\ pc' = "loop"
       \/ /\ files' = FilesAfterRename(rn.newPath, rn.oldPath)
          /\ rn' = [rn EXCEPT !.attempts = @ + 1, !.failed = TRUE, !.outcome = "threw"]
          /\ pc' = "idle"
    /\ UNCHANGED <<clock, dirs, record, video, del, storeFailed, pathVars, jobs, query>>

\* line 324: await fsAsync.rename(oldPath, newPath)
RenameDerivedMove ==
    /\ pc = "derivedMove"
    /\ \/ /\ RenameCanSucceed(rn.fOld, rn.fNew)
          /\ files' = FilesAfterRename(rn.fOld, rn.fNew)
          /\ rn' = [rn EXCEPT !.attempts = @ + 1,
                              !.moved = Append(@, <<rn.fOld, rn.fNew>>)]
          /\ pc' = "loop"
       \/ /\ files' = files
          /\ rn' = [rn EXCEPT !.attempts = @ + 1, !.failed = TRUE, !.outcome = "threw"]
          /\ pc' = "idle"
    /\ UNCHANGED <<clock, dirs, record, video, del, storeFailed, pathVars, jobs, query>>

\* lines 328-329: await video.save(), which writes the row or rejects.
RenameSave ==
    /\ pc = "loop"
    /\ rn.keys = <<>>
    /\ \/ /\ record' = video
          /\ rn' = [rn EXCEPT !.saves = @ + 1, !.outcome = "returned"]
          /\ storeFailed' = storeFailed
       \/ /\ record' = record
          /\ rn' = [rn EXCEPT !.saves = @ + 1, !.outcome = "threw"]
          /\ storeFailed' = TRUE
    /\ pc' = "idle"
    /\ UNCHANGED <<clock, files, dirs, video, del, pathVars, jobs, query>>

\* Where the delete stands once a step has called back.
DeletePc(d, rec) ==
    IF d.rm # "pending" /\ d.rmdir # "pending" /\ d.destroy # "pending"
    THEN IF rec.exists THEN "idle" ELSE "gone"
    ELSE "deleting"

\* deleteVideo, lines 363-380, on the row just read: starts the three steps
\* and returns; each step ends later, in any order.
DeleteVideo ==
    /\ pc = "idle"
    /\ record.exists
    /\ video' = record
    /\ del' = [rm |-> "pending", rmdir |-> "pending", destroy |-> "pending",
               threw |-> FALSE, sourceMissing |-> record.source \notin files]
    /\ rn' = RnIdle
    /\ pc' = "deleting"
    /\ UNCHANGED <<clock, files, dirs, record, storeFailed, pathVars, jobs, query>>

\* A plausible slip: the removal awaited, its failure thrown to the caller and
\* the steps after it given up.
RmCompleteAbort ==
    /\ pc = "deleting"
    /\ del.rm = "pending"
    /\ \/ /\ video.source \in files
          /\ files' = files \ {video.source}
          /\ del' = [del EXCEPT !.rm = "ok"]
       \/ /\ files' = files
          /\ del' = [del EXCEPT !.rm = "err", !.threw = TRUE,
                                !.rmdir = IF @ = "pending" THEN "none" ELSE @,
                                !.destroy = IF @ = "pending" THEN "none" ELSE @]
    /\ pc' = DeletePc(del', record)
    /\ UNCHANGED <<clock, dirs, record, video, rn, storeFailed, pathVars, jobs, query>>

\* lines 367-369: fs.rm(video.source) calls back, with an error when the file
\* is missing or cannot be removed; the error is logged.
RmComplete ==
    /\ pc = "deleting"
    /\ del.rm = "pending"
    /\ \/ /\ video.source \in files
          /\ files' = files \ {video.source}
          /\ del' = [del EXCEPT !.rm = "ok"]
       \/ /\ files' = files
          /\ del' = [del EXCEPT !.rm = "err"]
    /\ pc' = DeletePc(del', record)
    /\ UNCHANGED <<clock, dirs, record, video, rn, storeFailed, pathVars, jobs, query>>

\* line 372: the directory of the derived files
DerivedDir(v) ==
    Join(SliceButLast(Split(v.source, "/")), <<"/">>) \o <<"/">> \o NumberToString(v.id)

\* lines 371-377: fs.rmdir(<sourceDir>/<id>, recursive) calls back.
RmdirComplete ==
    /\ pc = "deleting"
    /\ del.rmdir = "pending"
    /\ LET dir == DerivedDir(video)
       IN  \/ /\ dir \in dirs
              /\ dirs' = {d \in dirs : d # dir /\ ~StartsWith(d, dir \o <<"/">>)}
              /\ files' = {f \in files : ~StartsWith(f, dir \o <<"/">>)}
              /\ del' = [del EXCEPT !.rmdir = "ok"]
           \/ /\ dirs' = dirs
              /\ files' = files
              /\ del' = [del EXCEPT !.rmdir = "err"]
    /\ pc' = DeletePc(del', record)
    /\ UNCHANGED <<clock, record, video, rn, storeFailed, pathVars, jobs, query>>

\* line 379: video.destroy() settles: the row is removed, or the store rejects.
DestroyComplete ==
    /\ pc = "deleting"
    /\ del.destroy = "pending"
    /\ \/ /\ record' = NoVideo
          /\ del' = [del EXCEPT !.destroy = "ok"]
          /\ storeFailed' = storeFailed
       \/ /\ record' = record
          /\ del' = [del EXCEPT !.destroy = "err"]
          /\ storeFailed' = TRUE
    /\ pc' = DeletePc(del', record')
    /\ UNCHANGED <<clock, files, dirs, video, rn, pathVars, jobs, query>>

Init ==
    /\ LifeIdle
    /\ PathIdle
    /\ EncodeIdle
    /\ QueryIdle

Next ==
    \/ CreateVideo
    \/ EncodeDerived
    \/ RenameBegin
    \/ RenamePrimaryMove
    \/ RenameLoopStep
    \/ RenameDerivedMove
    \/ RenameSave
    \/ DeleteVideo
    \/ RmComplete
    \/ RmdirComplete
    \/ DestroyComplete

Spec == Init /\ [][Next]_vars

(***************************************************************************)
(* Claims about the rename and the delete, checked under Spec.             *)
(***************************************************************************)
\* A call of updateVideoName has just ended (nothing else has run since).
RenameEnded == pc = "idle" /\ rn.outcome # "none"

\* The resolutions of a format map that hold a path.
WithPath(format) == {r \in DOMAIN format : format[r] # Null}

\* path's file name is <timestamp>_<newName>.<extension of old>
NamedAfter(path, newName, old) ==
    \E t \in ClockValues :
       BaseName(path) = NumberToString(t) \o <<"_">> \o newName \o <<".">> \o ExtName(old)

\* C1: whenever updateVideoName returns on a video whose format has entries for
\* exactly {720, 480}, exactly 3 files were moved, and video.source and every
\* value of video.format name a file on disk whose file name is
\* <timestamp>_<newName>.<original extension>.
C1_RenameMovesThreeToExistingFiles ==
    (/\ RenameEnded
     /\ rn.outcome = "returned"
     /\ DOMAIN rn.before.format = {720, 480}
     /\ WithPath(rn.before.format) = {720, 480})
    => /\ Len(rn.moved) = 3
       /\ video.source \in files
       /\ NamedAfter(video.source, rn.newName, rn.before.source)
       /\ \A r \in {720, 480} :
             /\ video.format[r] \in files
             /\ NamedAfter(video.format[r], rn.newName, rn.before.format[r])

\* C2: between the operations create, updateVideoName (any of its file moves
\* succeeding or failing) and deleteVideo, as long as the persisted row exists,
\* its source names a file on disk (the record store itself never failing).
C2_RecordSourceExistsOnDisk ==
    (pc = "idle" /\ record.exists /\ ~storeFailed) => record.source \in files

\* C3: if the move of the primary file fails, the call throws and has created
\* no partial state: no file moved, no derived move attempted, nothing
\* persisted, and the video object's source and format are as before the call.
C3_PrimaryFailureLeavesNoPartialState ==
    (RenameEnded /\ rn.failed /\ rn.moved = <<>>)
    => /\ rn.outcome = "threw"
       /\ rn.attempts = 1
       /\ files = rn.filesBefore
       /\ rn.saves = 0
       /\ record = rn.before
       /\ video.source = rn.before.source
       /\ video.format = rn.before.format

\* C4: a call of updateVideoName saves the row at most once, and only after the
\* primary move and the move of every path of format have succeeded; once a
\* move has failed the call has thrown and save is never called.
C4_SaveOnceAfterAllMoves ==
    /\ rn.saves <= 1
    /\ rn.saves = 1
          => /\ ~rn.failed
             /\ rn.attempts = Len(rn.moved)
             /\ Len(rn.moved) = 1 + Cardinality(WithPath(rn.before.format))
             /\ {rn.moved[i][1] : i \in 1..Len(rn.moved)}
                   = {rn.before.source}
                        \cup {rn.before.format[r] : r \in WithPath(rn.before.format)}
    /\ rn.failed => rn.saves = 0 /\ rn.outcome = "threw" /\ pc = "idle"

\* The row saved after the primary file and two derived files were moved.
C4_Witness ==
    /\ RenameEnded
    /\ rn.outcome = "returned"
    /\ rn.saves = 1
    /\ Len(rn.moved) = 3

\* C11: after any sequence of encodes and renames, every path of the saved
\* format[r] lies directly inside <sourceDir>/<id>/<r>p/, sourceDir being the
\* directory of the saved source; and the derived folders of two different
\* resolutions differ and both lie under <sourceDir>/<id>/.
C11_DerivedPathsLiveInTheirFolder ==
    record.exists
    => LET under == DirPrefix(record.source) \o NumberToString(record.id) \o <<"/">>
       IN  /\ \A r \in WithPath(record.format) :
                 /\ DirPrefix(record.format[r]) = under \o NumberToString(r) \o <<"p", "/">>
                 /\ BaseName(record.format[r]) # <<>>
           /\ \A r \in Resolutions :
                 generateEncodedVideoFolderPath(record.source, record.id, r)
                     = under \o NumberToString(r) \o <<"p", "/">>
           /\ Cardinality({generateEncodedVideoFolderPath(record.source, record.id, r) :
                              r \in Resolutions}) = Cardinality(Resolutions)

\* A rename of a video with two derived files has returned and was saved.
C11_Witness ==
    /\ RenameEnded
    /\ rn.outcome = "returned"
    /\ record = video
    /\ WithPath(record.format) = {720, 480}
    /\ record.format # rn.before.format

\* A rename has ended on the failure of a derived file's move, the primary
\* move having succeeded.
DerivedMoveFailed == RenameEnded /\ rn.failed /\ Len(rn.moved) >= 1

\* C13: when a derived file's move fails after the primary move succeeded,
\* nothing is rolled back and nothing more is attempted: the primary file and
\* the derived files moved earlier are at their new paths, the failed and the
\* not yet visited derived files are where they were.
C13_DerivedFailureStopsWithoutRollback ==
    DerivedMoveFailed
    => /\ rn.moved[1] = <<rn.oldPath, rn.newPath>>
       /\ \A i \in 1..Len(rn.moved) : rn.moved[i][2] \in files
       /\ rn.attempts = Len(rn.moved) + 1
       /\ rn.saves = 0
       /\ rn.fOld \in rn.filesBefore => rn.fOld \in files
       /\ \A i \in 1..Len(rn.keys) :
             LET k == rn.keys[i]
             IN  HasPath(rn.before.format, k)
                 => /\ video.format[k] = rn.before.format[k]
                    /\ rn.before.format[k] \in rn.filesBefore
                           => rn.before.format[k] \in files
       /\ files = (rn.filesBefore \ {rn.moved[i][1] : i \in 1..Len(rn.moved)})
                      \cup {rn.moved[i][2] : i \in 1..Len(rn.moved)}

\* The primary file and one derived file were moved, the move of the second
\* derived file failed.
C13_Witness ==
    /\ DerivedMoveFailed
    /\ Len(rn.moved) = 2
    /\ rn.fOld \in files

\* C14: whenever updateVideoName returns or throws, every entry of the video
\* object's format map names the path where that derived file is on disk
\* (for the derived files that were on disk when the call began).
C14_FormatMapMatchesDisk ==
    RenameEnded
    => \A r \in WithPath(video.format) :
          rn.before.format[r] \in rn.filesBefore => video.format[r] \in files

\* C15: the value assigned to video.source is the destination of the primary
\* move, and the value assigned to video.format[r] is the destination of that
\* derived file's move, whatever the clock reads during the call.
C15_AssignedPathIsTheMoveDestination ==
    /\ pc = "primaryMove" => video.source = rn.newPath
    /\ pc = "derivedMove" => video.format[rn.key] = rn.fNew

DeleteSettled ==
    /\ del.rm \in {"ok", "err"}
    /\ del.rmdir \in {"ok", "err"}
    /\ del.destroy \in {"ok", "err"}

\* C5: whatever the removal of the primary file and of the derived directory do
\* (the primary file already missing included), deleteVideo attempts its three
\* steps, throws nothing to its caller, and the row is removed by its destroy.
C5_DeleteAttemptsEveryStep ==
    del.rm # "none"
    => /\ del.rmdir # "none"
       /\ del.destroy # "none"
       /\ ~del.threw
       /\ del.sourceMissing /\ del.rm # "pending" => del.rm = "err"
       /\ DeleteSettled /\ del.destroy = "ok" => ~record.exists
       /\ pc = "gone" <=> (DeleteSettled /\ del.destroy = "ok")

\* A delete of a video whose primary file was already missing: the derived
\* directory and the row are removed all the same.
C5_Witness ==
    /\ pc = "gone"
    /\ del.sourceMissing
    /\ del.rm = "err"
    /\ del.rmdir = "ok"
    /\ ~record.exists
    /\ ~del.threw

(***************************************************************************)
(* encodeVideo: two jobs of one source at two resolutions, run             *)
(* concurrently.  The engine of a job emits progress events and then one   *)
(* terminal event, end or error; the job's handlers run on each event.     *)
(***************************************************************************)
EngineErrors == {"ffmpeg exited with code 1", "Output format is not available"}
Percents == {50, 100}

Pending == [state |-> "pending", reason |-> "none"]

\* resolve() and reject(err) settle a promise once; later calls change nothing.
Settle(promise, state, reason) ==
    IF promise.state = "pending" THEN [state |-> state, reason |-> reason]
    ELSE promise

\* The output path the encode handler gives a job of resolution r.
JobOutputPath(source, id, r, now) ==
    generateEncodedVideoPath(generateEncodedVideoFolderPath(source, id, r),
                             getVideoName(source), now)

\* lines 332-345: encodeVideo(videoPath, outputPath, resolution) starts the
\* engine and returns a pending promise.
NewJob(outputPath, resolution) ==
    [resolution |-> resolution, output |-> outputPath,
     engine |-> "running", error |-> "none", progress |-> 0,
     promise |-> Pending]

EncodeInit ==
    /\ LifeIdle
    /\ PathIdle
    /\ QueryIdle
    /\ \E name \in DeclaredNames, fileName \in UploadedFileNames, id \in VideoIds,
          r1 \in Resolutions, r2 \in Resolutions,
          t0 \in ClockValues, t1 \in ClockValues, t2 \in ClockValues :
          /\ r1 # r2
          /\ t0 <= t1
          /\ t1 <= t2
          /\ LET source == generateVideoPath(UploadFolder, name, fileName, t0)
             IN  jobs = <<NewJob(JobOutputPath(source, id, r1, t1), r1),
                          NewJob(JobOutputPath(source, id, r2, t2), r2)>>

\* A plausible slip: the job resolved when the progress reaches 100%.
OnProgressResolves(js, j, percent) ==
    IF percent = 100
    THEN [js EXCEPT ![j].promise = Settle(@, "resolved", "none")]
    ELSE js

\* lines 354-358: .on("progress"): logs the percentage.
OnProgress(js, j, percent) == js

\* lines 350-353: .on("end"): logs and resolves.
OnEnd(js, j) == [js EXCEPT ![j].promise = Settle(@, "resolved", "none")]

\* A plausible slip: one promise shared by the jobs of a video, so that an
\* error rejects them all.
OnErrorRejectsAll(js, j, err) ==
    [k \in DOMAIN js |-> [js[k] EXCEPT !.promise = Settle(@, "rejected", err)]]

\* lines 346-349: .on("error"): logs and rejects with the engine's error.
OnError(js, j, err) == [js EXCEPT ![j].promise = Settle(@, "rejected", err)]

EngineProgress ==
    /\ \E j \in DOMAIN jobs, percent \in Percents :
          /\ jobs[j].engine = "running"
          /\ jobs[j].progress < MaxProgress
          /\ jobs' = OnProgress([jobs EXCEPT ![j].progress = @ + 1], j, percent)
    /\ UNCHANGED <<lifeVars, pathVars, query>>

EngineEnd ==
    /\ \E j \in DOMAIN jobs :
          /\ jobs[j].engine = "running"
          /\ jobs' = OnEnd([jobs EXCEPT ![j].engine = "end"], j)
    /\ UNCHANGED <<lifeVars, pathVars, query>>

EngineError ==
    /\ \E j \in DOMAIN jobs, err \in EngineErrors :
          /\ jobs[j].engine = "running"
          /\ jobs' = OnError([jobs EXCEPT ![j].engine = "error", ![j].error = err], j, err)
    /\ UNCHANGED <<lifeVars, pathVars, query>>

EncodeNext ==
    \/ EngineProgress
    \/ EngineEnd
    \/ EngineError

SpecEncode == EncodeInit /\ [][EncodeNext]_vars

(***************************************************************************)
(* Claims about the encode jobs, checked under SpecEncode.                 *)
(***************************************************************************)
\* C6: a job resolves if and only if its engine signalled end, and rejects, with
\* the engine's error, if and only if its engine signalled error; it is never
\* settled otherwise, whatever progress events came before.
C6_OutcomeIsTheTerminalEvent ==
    \A j \in DOMAIN jobs :
       /\ jobs[j].promise.state \in {"pending", "resolved", "rejected"}
       /\ jobs[j].promise.state = "resolved" <=> jobs[j].engine = "end"
       /\ jobs[j].promise.state = "rejected" <=> jobs[j].engine = "error"
       /\ jobs[j].promise.state = "rejected" => jobs[j].promise.reason = jobs[j].error
       /\ jobs[j].promise.state = "pending" <=> jobs[j].engine = "running"

\* One job resolved and the other rejected, each after progress events.
C6_Witness ==
    \E j, k \in DOMAIN jobs :
       /\ jobs[j].progress > 0
       /\ jobs[j].promise.state = "resolved"
       /\ jobs[k].progress > 0
       /\ jobs[k].promise.state = "rejected"
       /\ jobs[k].promise.reason \in EngineErrors

\* What the engine of a job alone makes of the job's promise.
OwnOutcome(job) ==
    CASE job.engine = "running" -> "pending"
      [] job.engine = "end" -> "resolved"
      [] job.engine = "error" -> "rejected"

\* C7: two concurrent jobs of one source at two resolutions write to distinct
\* output paths, and once one of them has failed the other is where its own
\* engine put it: still running, or completed successfully.
C7_JobsAreIndependent ==
    \A j, k \in DOMAIN jobs :
       j # k =>
          /\ jobs[j].resolution # jobs[k].resolution
          /\ jobs[j].output # jobs[k].output
          /\ jobs[k].promise.state = "rejected"
                => jobs[j].promise.state = OwnOutcome(jobs[j])

\* The first job failed before the second one ended, and the second resolved.
C7_Witness ==
    /\ Len(jobs) = 2
    /\ jobs[1].promise.state = "rejected"
    /\ jobs[2].engine = "end"
    /\ jobs[2].promise.state = "resolved"
    /\ jobs[2].progress > 0

(***************************************************************************)
(* The listings: getVideos and getVideosByUserId, up to the options they   *)
(* give Video.findAndCountAll. A criterion or a page size the request does *)
(* not carry is undefined; the page size is then 0 here, which || treats   *)
(* as it treats undefined.                                                 *)
(***************************************************************************)
\* a || b of two numbers
JsOr(a, b) == IF a # 0 THEN a ELSE b

\* lines 205-211: the filter builder; the keys of the where clause.
FilterKeys(q) ==
    (IF q.name THEN {"source"} ELSE {})
        \cup (IF q.user THEN {"user"} ELSE {})
        \cup (IF q.duration THEN {"duration"} ELSE {})

QueryInit ==
    /\ LifeIdle
    /\ PathIdle
    /\ EncodeIdle
    /\ \/ \E name \in BOOLEAN, user \in BOOLEAN, duration \in BOOLEAN,
             page \in 1..MaxPage, perPage \in 0..MaxPerPage :
             query = [QueryNone EXCEPT !.fn = "getVideos", !.name = name, !.user = user,
                                       !.duration = duration, !.page = page,
                                       !.perPage = perPage]
       \/ \E page \in 1..MaxPage, perPage \in 1..MaxPerPage :
             query = [QueryNone EXCEPT !.fn = "getVideosByUserId", !.user = TRUE,
                                       !.page = page, !.perPage = perPage]

getVideos ==
    /\ query.fn = "getVideos"
    /\ ~query.done
    /\ query' = [query EXCEPT !.where = FilterKeys(query),
                              !.limit = JsOr(query.perPage, 5),
                              !.offset = JsOr(query.perPage, 5 * (query.page - 1)),
                              !.done = TRUE]
    /\ UNCHANGED <<lifeVars, pathVars, jobs>>

getVideosByUserId ==
    /\ query.fn = "getVideosByUserId"
    /\ ~query.done
    /\ query' = [query EXCEPT !.where = {"user"},
                              !.limit = query.perPage,
                              !.offset = query.perPage * (query.page - 1),
                              !.done = TRUE]
    /\ UNCHANGED <<lifeVars, pathVars, jobs>>

QueryNext ==
    \/ getVideos
    \/ getVideosByUserId

SpecQuery == QueryInit /\ [][QueryNext]_vars

(***************************************************************************)
(* Claims about the listings, checked under SpecQuery.                     *)
(***************************************************************************)
\* The page size of a listing: the one asked, 5 when getVideos is asked none.
PageSize(q) == IF q.perPage = 0 THEN 5 ELSE q.perPage

\* C16: for every page >= 1 and perPage >= 1 (or no perPage, which stands for
\* 5), getVideos and getVideosByUserId query the record store with
\* limit = perPage and offset = perPage * (page - 1), so that page p is the
\* matching records perPage * (p - 1) + 1 .. perPage * p.
C16_PagesFollowEachOther ==
    query.done
    => /\ query.limit = PageSize(query)
       /\ query.offset = PageSize(query) * (query.page - 1)

=============================================================================
